---- MODULE Spec2Model ----
(***************************************************************************)
(* Model of the LiveOptionsPricing component (src/sheshoptions.py, a React *)
(* component): the pricing functions normalCDF, calculateBlackScholes,     *)
(* calculateGreeks and generateOptions, and the refresh machinery          *)
(* fetchAllOptions / useEffect / Refresh button.                           *)
(*                                                                         *)
(* Numbers.  JavaScript numbers are IEEE doubles.  They are modelled in    *)
(* decimal fixed point, truncating toward zero:                            *)
(*   - dimensionless quantities (T, d1, d2, probabilities, delta) and      *)
(*     gamma are integers in units of 1/ONE = 1e-7;                        *)
(*   - money (spot, prices, theta, vega) is in cents; a strike is a whole  *)
(*     number of currency units, as Math.round returns it.                 *)
(* The decimal literals of the source (0.2316419, 0.3989423, ...) have at  *)
(* most seven decimals and are represented exactly.  Sums, differences,    *)
(* comparisons and Math.max of the modelled inputs are exact; products,    *)
(* quotients, exp, log and sqrt are approximations to about 1e-6.          *)
(* The IEEE special values the code can produce are modelled: NaN (a       *)
(* missing price, 0/0) and +Infinity / -Infinity (division by a zero       *)
(* strike).                                                                *)
(***************************************************************************)
EXTENDS Integers, Sequences, FiniteSets, TLC

----------------------------------------------------------------------------
(* Fixed-point arithmetic *)

ONE == 10^7
CENT == 10^2

\* IEEE special values, kept outside the range of every modelled number.
NaN    == 0 - 2147483647
PosInf == 2147483647 - 1
NegInf == 0 - 2147483646

IsNaN(a) == a = NaN
IsInf(a) == a = PosInf \/ a = NegInf
IsNum(a) == ~IsNaN(a) /\ ~IsInf(a)

Abs(a) == IF a < 0 THEN 0 - a ELSE a
Sgn(a) == IF a < 0 THEN 0 - 1 ELSE IF a > 0 THEN 1 ELSE 0
Max(a, b) == IF a >= b THEN a ELSE b

\* floor(a * b / ONE) for a, b >= 0, computed in limbs of four digits so that
\* no intermediate exceeds 32-bit integer range.
MulAbs(a, b) ==
  LET a1 == a \div 10000
      a0 == a % 10000
      b1 == b \div 10000
      b0 == b % 10000
      m  == a1 * b0 + a0 * b1
  IN  a1 * b1 * 10 + m \div 1000 + ((m % 1000) * 10000 + a0 * b0) \div ONE

\* a * b of two finite numbers, one of them in units of 1/ONE.
Mul(a, b) == Sgn(a) * Sgn(b) * MulAbs(Abs(a), Abs(b))

\* The first n decimals of r / b (0 <= r < b), by long division.
RECURSIVE Frac(_, _, _)
Frac(r, b, n) ==
  IF n = 0 THEN 0
  ELSE ((r * 10) \div b) * 10^(n - 1) + Frac((r * 10) % b, b, n - 1)

DivAbs(a, b) == (a \div b) * ONE + Frac(a % b, b, 7)

\* a / b of two finite numbers of the same unit, b # 0, in units of 1/ONE.
Div(a, b) == Sgn(a) * Sgn(b) * DivAbs(Abs(a), Abs(b))

\* Math.sqrt(a), a > 0 in units of 1/ONE: Newton's iteration from s.
RECURSIVE SqrtIter(_, _, _)
SqrtIter(a, s, n) ==
  LET s2 == (s + Div(a, s)) \div 2
  IN  IF n = 0 \/ Abs(s2 - s) <= 1 THEN s2 ELSE SqrtIter(a, s2, n - 1)

Sqrt(a) == IF a = 0 THEN 0 ELSE SqrtIter(a, ONE, 40)

\* a / k truncated toward zero, k a positive whole number.
TruncDiv(a, k) == Sgn(a) * (Abs(a) \div k)

\* sum over j >= k - 1 of (-w)^j / j!, given the term t = (-w)^(k-1) / (k-1)!.
RECURSIVE ExpSeries(_, _, _)
ExpSeries(w, t, k) ==
  IF t = 0 THEN 0 ELSE t + ExpSeries(w, TruncDiv(0 - Mul(t, w), k), k + 1)

\* exp(-z) for z >= 0: halve the argument down to [0, 1/2], then square back.
RECURSIVE ExpNeg(_)
ExpNeg(z) ==
  IF z > ONE \div 2
    THEN LET h == ExpNeg(z \div 2) IN Mul(h, h)
    ELSE ExpSeries(z, ONE, 1)

\* Math.exp(y) for y <= 0 (the only arguments the code passes: -x*x/2, -r*T).
Exp(y) == ExpNeg(0 - y)

\* u + u^3/3 + u^5/5 + ... continued from the power p = u^k.
RECURSIVE AtanhSeries(_, _, _)
AtanhSeries(u2, p, k) ==
  IF p = 0 THEN 0 ELSE p \div k + AtanhSeries(u2, Mul(p, u2), k + 2)

\* Math.log(q) for finite q > 0: 2 * atanh((q - 1) / (q + 1)).
Ln(q) ==
  LET u == Div(q - ONE, q + ONE)
      s == Sgn(u) * AtanhSeries(Mul(u, u), Abs(u), 1)
  IN  2 * s

----------------------------------------------------------------------------
(* IEEE arithmetic on the special values *)

FNeg(a) ==
  IF IsNaN(a) THEN NaN
  ELSE IF a = PosInf THEN NegInf
  ELSE IF a = NegInf THEN PosInf
  ELSE 0 - a

FAbs(a) == IF IsNaN(a) THEN NaN ELSE IF IsInf(a) THEN PosInf ELSE Abs(a)

FAdd(a, b) ==
  IF IsNaN(a) \/ IsNaN(b) THEN NaN
  ELSE IF IsInf(a) /\ IsInf(b) THEN (IF a = b THEN a ELSE NaN)
  ELSE IF IsInf(a) THEN a
  ELSE IF IsInf(b) THEN b
  ELSE a + b

FSub(a, b) == FAdd(a, FNeg(b))

\* a * b, one of the two in units of 1/ONE.
FMul(a, b) ==
  IF IsNaN(a) \/ IsNaN(b) THEN NaN
  ELSE IF IsInf(a) \/ IsInf(b)
    THEN (IF a = 0 \/ b = 0 THEN NaN
          ELSE IF Sgn(a) = Sgn(b) THEN PosInf ELSE NegInf)
  ELSE Mul(a, b)

\* a / b for a divisor that is not zero; a and b in the same unit, or a in
\* cents and b in units of 1/ONE.
FDiv(a, b) ==
  IF IsNaN(a) \/ IsNaN(b) THEN NaN
  ELSE IF IsInf(a) /\ IsInf(b) THEN NaN
  ELSE IF IsInf(a) THEN (IF Sgn(a) = Sgn(b) THEN PosInf ELSE NegInf)
  ELSE IF IsInf(b) THEN 0
  ELSE Div(a, b)

\* a / k for a positive whole number k (the code's / 2, / 365, / 100).
FDivInt(a, k) == IF IsNum(a) THEN TruncDiv(a, k) ELSE a

\* a > b as JavaScript evaluates it: false when either side is NaN.
FGt(a, b) == ~IsNaN(a) /\ ~IsNaN(b) /\ a > b

\* Math.max(a, b): NaN when either argument is NaN.
FMax(a, b) == IF IsNaN(a) \/ IsNaN(b) THEN NaN ELSE Max(a, b)

\* Math.exp(a) for the arguments the code passes (never positive and finite).
FExp(a) ==
  IF IsNaN(a) THEN NaN
  ELSE IF a = NegInf THEN 0
  ELSE IF a = PosInf THEN PosInf
  ELSE Exp(a)

\* Math.log(q).
FLog(q) ==
  IF IsNaN(q) THEN NaN
  ELSE IF q = PosInf THEN PosInf
  ELSE IF q < 0 THEN NaN
  ELSE IF q = 0 THEN NegInf
  ELSE Ln(q)

\* S / K in generateOptions' calls, S and K in cents.  K is Math.round(S * m)
\* for a positive m, so a zero K carries the sign of S (0 or -0) and S / K is
\* +Infinity for every S # 0, and NaN for S = 0.
SpotOverStrike(S, K) ==
  IF IsNaN(S) \/ IsNaN(K) THEN NaN
  ELSE IF K = 0 THEN (IF S = 0 THEN NaN ELSE PosInf)
  ELSE Div(S, K)

----------------------------------------------------------------------------
(* The pricing functions *)

\* Math.PI to seven decimals.
PI == 31415927

\* The last two lines of normalCDF, for its constants t and d.
normalCDFOf(x, t, d) ==
  IF FGt(x, 0)
    THEN FSub(ONE, FMul(FMul(d, t),
                FAdd(3193815, FMul(t,
                  FAdd(0 - 3565638, FMul(t,
                    FAdd(17814780, FMul(t,
                      FAdd(0 - 18212560, FMul(t, 13302740))))))))))
    ELSE FMul(FMul(d, t),
           FAdd(3193815, FMul(t,
             FAdd(0 - 3565638, FMul(t,
               FAdd(17814780, FMul(t,
                 FAdd(0 - 18212560, FMul(t, 13302740)))))))))

normalCDF(x) ==
  normalCDFOf(x,
              FDiv(ONE, FAdd(ONE, FMul(2316419, FAbs(x)))),
              FMul(3989423, FExp(FDivInt(FMul(FNeg(x), x), 2))))

\* d1 and d2 of calculateBlackScholes and calculateGreeks; S and K in cents,
\* T > 0, r and sigma in units of 1/ONE.
D1(S, K, T, r, sigma) ==
  FDiv(FAdd(FLog(SpotOverStrike(S, K)),
            FMul(FAdd(r, FMul(FMul(ONE \div 2, sigma), sigma)), T)),
       FMul(sigma, Sqrt(T)))

D2(d1, T, sigma) == FSub(d1, FMul(sigma, Sqrt(T)))

\* The return statements of calculateBlackScholes for T > 0.
BlackScholesFormula(S, K, T, r, type, d1, d2) ==
  IF type = "call"
    THEN FSub(FMul(S, normalCDF(d1)),
              FMul(FMul(K, FExp(FMul(FNeg(r), T))), normalCDF(d2)))
    ELSE FSub(FMul(FMul(K, FExp(FMul(FNeg(r), T))), normalCDF(FNeg(d2))),
              FMul(S, normalCDF(FNeg(d1))))

\* calculateBlackScholes with Math.max left out of the T <= 0 return.
calculateBlackScholesNoMax(S, K, T, r, sigma, type) ==
  IF T <= 0
    THEN (IF type = "call" THEN FSub(S, K) ELSE FSub(K, S))
    ELSE BlackScholesFormula(S, K, T, r, type,
                             D1(S, K, T, r, sigma),
                             D2(D1(S, K, T, r, sigma), T, sigma))

\* S, K and the result in cents; T, r, sigma in units of 1/ONE.
calculateBlackScholes(S, K, T, r, sigma, type) ==
  IF T <= 0
    THEN (IF type = "call" THEN FMax(FSub(S, K), 0) ELSE FMax(FSub(K, S), 0))
    ELSE BlackScholesFormula(S, K, T, r, type,
                             D1(S, K, T, r, sigma),
                             D2(D1(S, K, T, r, sigma), T, sigma))

\* npd1 / (S * sigma * Math.sqrt(T)), per currency unit in units of 1/ONE;
\* denom is S * sigma * Math.sqrt(T) in cents.
GammaOf(npd1, denom) ==
  IF IsNaN(npd1) \/ IsNaN(denom) THEN NaN
  ELSE IF denom = 0 THEN (IF npd1 = 0 THEN NaN ELSE PosInf)
  ELSE TruncDiv(npd1 * CENT, denom)

\* The four sensitivities of calculateGreeks for T > 0, given its constants:
\* sqrtT is Math.sqrt(T), disc is r * K * Math.exp(-r * T).
GreeksFormula(S, sigma, type, d2, nd1, npd1, sqrtT, disc) ==
  [delta |-> IF type = "call" THEN nd1 ELSE FSub(nd1, ONE),
   gamma |-> GammaOf(npd1, FMul(FMul(S, sigma), sqrtT)),
   theta |-> IF type = "call"
               THEN FDivInt(FSub(FDiv(FMul(FMul(FNeg(S), npd1), sigma), 2 * sqrtT),
                                 FMul(disc, normalCDF(d2))), 365)
               ELSE FDivInt(FAdd(FDiv(FMul(FMul(FNeg(S), npd1), sigma), 2 * sqrtT),
                                 FMul(disc, normalCDF(FNeg(d2)))), 365),
   vega  |-> FDivInt(FMul(FMul(S, npd1), sqrtT), 100)]

GreeksOf(S, K, T, r, sigma, type, d1) ==
  GreeksFormula(S, sigma, type,
                D2(d1, T, sigma),
                normalCDF(d1),
                FDiv(FExp(FDivInt(FMul(FNeg(d1), d1), 2)), Sqrt(2 * PI)),
                Sqrt(T),
                FMul(FMul(r, K), FExp(FMul(FNeg(r), T))))

\* delta in units of 1/ONE, gamma in units of 1/ONE per currency unit,
\* theta and vega in cents.
calculateGreeks(S, K, T, r, sigma, type) ==
  IF T <= 0
    THEN [delta |-> 0, gamma |-> 0, theta |-> 0, vega |-> 0]
    ELSE GreeksOf(S, K, T, r, sigma, type, D1(S, K, T, r, sigma))

----------------------------------------------------------------------------
(* generateOptions *)

\* Math.round(stockPrice * pct / 100) in currency units, stockPrice in cents:
\* Math.round(v) is floor(v + 1/2).  The product is taken exactly.
RoundTimes(stockPrice, pct) ==
  IF IsNaN(stockPrice) THEN NaN ELSE (stockPrice * pct + 5000) \div 10000

\* A whole number of currency units in cents.
Cents(k) == IF IsNaN(k) THEN NaN ELSE k * CENT

\* Days from 1970-01-01 to the date <<y, m, d>>: what new Date('y-m-d')
\* parses to (midnight UTC), in days.
DayOf(date) ==
  LET y   == IF date[2] <= 2 THEN date[1] - 1 ELSE date[1]
      era == y \div 400
      yoe == y - era * 400
      mp  == IF date[2] > 2 THEN date[2] - 3 ELSE date[2] + 9
      doy == (153 * mp + 2) \div 5 + date[3] - 1
      doe == yoe * 365 + yoe \div 4 - yoe \div 100 + doy
  IN  era * 146097 + doe - 719468

\* A symbol is the sequence of its segments: 'RELIANCE.NS' is
\* <<"RELIANCE", ".NS">>.  String.replace(seg, '') drops the first seg.
RECURSIVE Replace(_, _)
Replace(symbol, seg) ==
  IF symbol = <<>> THEN <<>>
  ELSE IF Head(symbol) = seg THEN Tail(symbol)
  ELSE <<Head(symbol)>> \o Replace(Tail(symbol), seg)

strikes(stockPrice) ==
  << RoundTimes(stockPrice, 85),
     RoundTimes(stockPrice, 90),
     RoundTimes(stockPrice, 95),
     RoundTimes(stockPrice, 100),
     RoundTimes(stockPrice, 105),
     RoundTimes(stockPrice, 110),
     RoundTimes(stockPrice, 115) >>

expirations ==
  << [date |-> <<2025, 12, 30>>, label |-> "30 Dec 25"],
     [date |-> <<2026, 1, 30>>,  label |-> "30 Jan 26"],
     [date |-> <<2026, 3, 27>>,  label |-> "27 Mar 26"] >>

\* r = 0.065 and sigma = 0.30.
RiskFreeRate == 650000
Volatility == 3000000

\* (new Date(exp.date) - new Date()) / (1000 * 60 * 60 * 24 * 365), the clock
\* read at the day `today`.
TimeToExpiry(exp, today) == Div(DayOf(exp.date) - today, 365)

\* RowOf with intrinsicValue set from the theoretical price.
RowOfIntrinsicFromPrice(stockSymbol, stockPrice, exp, strike, type, theoreticalPrice, intrinsicValue, greeks) ==
  [code |-> << Replace(stockSymbol, ".NS"), exp.label, strike,
               IF type = "call" THEN "CE" ELSE "PE" >>,
   underlying |-> stockSymbol,
   strike |-> strike,
   type |-> type,
   expiry |-> exp.label,
   expiryDate |-> exp.date,
   spotPrice |-> stockPrice,
   theoreticalPrice |-> theoreticalPrice,
   intrinsicValue |-> theoreticalPrice,
   timeValue |-> FSub(theoreticalPrice, intrinsicValue),
   delta |-> greeks.delta,
   gamma |-> greeks.gamma,
   theta |-> greeks.theta,
   vega |-> greeks.vega,
   itm |-> IF type = "call"
             THEN FGt(stockPrice, Cents(strike))
             ELSE FGt(Cents(strike), stockPrice)]

\* RowOf with itm compared by >= and <=, so that spot = strike is flagged.
RowOfItmAtTheMoney(stockSymbol, stockPrice, exp, strike, type, theoreticalPrice, intrinsicValue, greeks) ==
  [code |-> << Replace(stockSymbol, ".NS"), exp.label, strike,
               IF type = "call" THEN "CE" ELSE "PE" >>,
   underlying |-> stockSymbol,
   strike |-> strike,
   type |-> type,
   expiry |-> exp.label,
   expiryDate |-> exp.date,
   spotPrice |-> stockPrice,
   theoreticalPrice |-> theoreticalPrice,
   intrinsicValue |-> intrinsicValue,
   timeValue |-> FSub(theoreticalPrice, intrinsicValue),
   delta |-> greeks.delta,
   gamma |-> greeks.gamma,
   theta |-> greeks.theta,
   vega |-> greeks.vega,
   itm |-> IF type = "call"
             THEN ~FGt(Cents(strike), stockPrice)
             ELSE ~FGt(stockPrice, Cents(strike))]

\* The object pushed for one (exp, strike, type), given its constants.
RowOf(stockSymbol, stockPrice, exp, strike, type, theoreticalPrice, intrinsicValue, greeks) ==
  [code |-> << Replace(stockSymbol, ".NS"), exp.label, strike,
               IF type = "call" THEN "CE" ELSE "PE" >>,
   underlying |-> stockSymbol,
   strike |-> strike,
   type |-> type,
   expiry |-> exp.label,
   expiryDate |-> exp.date,
   spotPrice |-> stockPrice,
   theoreticalPrice |-> theoreticalPrice,
   intrinsicValue |-> intrinsicValue,
   timeValue |-> FSub(theoreticalPrice, intrinsicValue),
   delta |-> greeks.delta,
   gamma |-> greeks.gamma,
   theta |-> greeks.theta,
   vega |-> greeks.vega,
   itm |-> IF type = "call"
             THEN FGt(stockPrice, Cents(strike))
             ELSE FGt(Cents(strike), stockPrice)]

\* The body of the innermost forEach.
OptionRow(stockSymbol, stockPrice, exp, T, strike, type) ==
  RowOf(stockSymbol, stockPrice, exp, strike, type,
        calculateBlackScholes(stockPrice, Cents(strike), T,
                              RiskFreeRate, Volatility, type),
        IF type = "call"
          THEN FMax(FSub(stockPrice, Cents(strike)), 0)
          ELSE FMax(FSub(Cents(strike), stockPrice), 0),
        calculateGreeks(stockPrice, Cents(strike), T,
                        RiskFreeRate, Volatility, type))

\* ForEachType over ['put', 'call'].
ForEachTypePutFirst(stockSymbol, stockPrice, exp, T, strike) ==
  << OptionRow(stockSymbol, stockPrice, exp, T, strike, "put"),
     OptionRow(stockSymbol, stockPrice, exp, T, strike, "call") >>

\* ['call', 'put'].forEach(type => options.push(...))
ForEachType(stockSymbol, stockPrice, exp, T, strike) ==
  << OptionRow(stockSymbol, stockPrice, exp, T, strike, "call"),
     OptionRow(stockSymbol, stockPrice, exp, T, strike, "put") >>

\* strikes.forEach(strike => ...)
RECURSIVE ForEachStrike(_, _, _, _, _)
ForEachStrike(stockSymbol, stockPrice, exp, T, ks) ==
  IF ks = <<>> THEN <<>>
  ELSE ForEachType(stockSymbol, stockPrice, exp, T, Head(ks))
       \o ForEachStrike(stockSymbol, stockPrice, exp, T, Tail(ks))

\* expirations.forEach(exp => ...)
RECURSIVE ForEachExpiration(_, _, _, _)
ForEachExpiration(stockSymbol, stockPrice, today, exps) ==
  IF exps = <<>> THEN <<>>
  ELSE ForEachStrike(stockSymbol, stockPrice, Head(exps),
                     TimeToExpiry(Head(exps), today), strikes(stockPrice))
       \o ForEachExpiration(stockSymbol, stockPrice, today, Tail(exps))

\* generateOptions(stockSymbol, stockPrice), with the clock it reads.
generateOptions(stockSymbol, stockPrice, today) ==
  ForEachExpiration(stockSymbol, stockPrice, today, expirations)

----------------------------------------------------------------------------
(* The component: state, gateway, refresh cycles *)

VARIABLES
  selectedMarket,   \* useState('NSE')
  optionsData,      \* useState([])
  loading,          \* useState(false)
  lastUpdate,       \* useState(null): the day of the last setLastUpdate, or Null
  error,            \* useState(null)
  refreshInterval,  \* useRef(null): the market whose closure the interval runs
  mounted,          \* whether the first effect has run
  cycles,           \* the fetchAllOptions calls in flight, oldest first
  clock,            \* the number of clock steps taken
  call              \* the invocation of a pricing function under examination

vars == << selectedMarket, optionsData, loading, lastUpdate, error,
           refreshInterval, mounted, cycles, clock, call >>

component == << selectedMarket, optionsData, loading, lastUpdate, error,
                refreshInterval, mounted, cycles >>

Null == "null"

\* The most fetchAllOptions calls in flight at once.
MaxCycles == 2
\* The most clock steps.
MaxTicks == 2

\* The instants at which the clock is read, as dates at midnight UTC.
ClockInstants ==
  << <<2026, 2, 26>>, <<2026, 3, 27>>, <<2026, 11, 4>>, <<2027, 1, 1>>,
     <<2027, 6, 1>> >>

\* new Date(), in days.
Now == DayOf(ClockInstants[clock + 1])

marketStocks ==
  [NSE    |-> << <<"RELIANCE", ".NS">>, <<"TCS", ".NS">>, <<"INFY", ".NS">>,
                 <<"HDFCBANK", ".NS">>, <<"ICICIBANK", ".NS">> >>,
   NYSE   |-> << <<"AAPL">>, <<"MSFT">>, <<"GOOGL">>, <<"AMZN">>, <<"TSLA">> >>,
   NASDAQ |-> << <<"NVDA">>, <<"META">>, <<"NFLX">>, <<"AMD">>, <<"INTC">> >>]

Markets == DOMAIN marketStocks

\* What the chart endpoint can answer for a symbol: the request or the JSON
\* fails ("error"), the chart has no result ("noresult"), or result[0].meta
\* is there with regularMarketPrice a number of cents or absent (NaN).
Upstream(symbol) ==
  IF symbol = <<"RELIANCE", ".NS">>
    THEN {[kind |-> "meta", regularMarketPrice |-> 285050], [kind |-> "error"]}
  ELSE IF symbol = <<"INFY", ".NS">>
    THEN {[kind |-> "meta", regularMarketPrice |-> 0 - 500]}
  ELSE IF symbol = <<"AAPL">>
    THEN {[kind |-> "meta", regularMarketPrice |-> 0]}
  ELSE IF symbol = <<"NVDA">>
    THEN {[kind |-> "meta", regularMarketPrice |-> NaN]}
  ELSE IF symbol \in {<<"TCS", ".NS">>, <<"MSFT">>, <<"META">>}
    THEN {[kind |-> "noresult"]}
  ELSE {[kind |-> "error"]}

\* fetchStockPrice on the answer `response`: null, or the object with the price.
fetchStockPrice(response) ==
  IF response.kind = "meta"
    THEN [isNull |-> FALSE, price |-> response.regularMarketPrice]
    ELSE [isNull |-> TRUE]

\* The top of fetchAllOptions, up to its first await, run for the market its
\* closure holds.
StartCycle(market) ==
  /\ Len(cycles) < MaxCycles
  /\ loading' = TRUE
  /\ error' = Null
  /\ cycles' = Append(cycles, [market |-> market, i |-> 1, allOptions |-> <<>>])

\* The first run of the effect: a cycle starts and the interval is set.
Mount ==
  /\ ~mounted
  /\ mounted' = TRUE
  /\ StartCycle(selectedMarket)
  /\ refreshInterval' = selectedMarket
  /\ UNCHANGED << selectedMarket, optionsData, lastUpdate, clock, call >>

\* The select's onChange: the effect's cleanup clears the interval and the
\* effect runs again for the new market.
SelectMarket(market) ==
  /\ mounted
  /\ market # selectedMarket
  /\ selectedMarket' = market
  /\ StartCycle(market)
  /\ refreshInterval' = market
  /\ UNCHANGED << optionsData, lastUpdate, mounted, clock, call >>

\* The interval's callback, thirty seconds after the last.
IntervalTick ==
  /\ mounted
  /\ refreshInterval # Null
  /\ StartCycle(refreshInterval)
  /\ UNCHANGED << selectedMarket, optionsData, lastUpdate, refreshInterval,
                  mounted, clock, call >>

\* The Refresh button, disabled while loading.
Refresh ==
  /\ mounted
  /\ ~loading
  /\ StartCycle(selectedMarket)
  /\ UNCHANGED << selectedMarket, optionsData, lastUpdate, refreshInterval,
                  mounted, clock, call >>

RemoveAt(seq, k) == SubSeq(seq, 1, k - 1) \o SubSeq(seq, k + 1, Len(seq))

\* What follows the loop body in the cycle c, the k-th in flight, with
\* allOptions as the body left it: the next await, or the end of the cycle.
Continue(k, c, allOptions) ==
  IF c.i < Len(marketStocks[c.market])
    THEN /\ cycles' = [cycles EXCEPT ![k] =
                         [c EXCEPT !.i = c.i + 1, !.allOptions = allOptions]]
         /\ UNCHANGED << selectedMarket, optionsData, loading, lastUpdate,
                         error, refreshInterval, mounted, clock, call >>
    ELSE /\ optionsData' = allOptions
         /\ lastUpdate' = Now
         /\ loading' = FALSE
         /\ cycles' = RemoveAt(cycles, k)
         /\ UNCHANGED << selectedMarket, error, refreshInterval, mounted,
                         clock, call >>

\* The loop body of the cycle c for the stock data the await gave.
LoopBody(c, stock, stockData) ==
  IF ~stockData.isNull
    THEN c.allOptions \o generateOptions(stock, stockData.price, Now)
    ELSE c.allOptions

\* The k-th cycle's awaited fetchStockPrice resolves: the loop body runs, and
\* either the next fetch is awaited or the cycle ends.
FetchReturn(k, response) ==
  Continue(k, cycles[k],
           LoopBody(cycles[k], marketStocks[cycles[k].market][cycles[k].i],
                    fetchStockPrice(response)))

\* The clock moves to its next instant.  The instants are days apart, and a
\* cycle's requests end within the request timeout: no cycle spans two.
Tick ==
  /\ cycles = <<>>
  /\ clock < MaxTicks
  /\ clock + 1 < Len(ClockInstants)
  /\ clock' = clock + 1
  /\ UNCHANGED << component, call >>

\* Some cycle in flight gets the answer to the request it awaits.
Resume ==
  \E k \in 1..Len(cycles) :
    \E response \in Upstream(marketStocks[cycles[k].market][cycles[k].i]) :
      FetchReturn(k, response)

Idle == [fn |-> "idle"]

Init ==
  /\ selectedMarket = "NSE"
  /\ optionsData = <<>>
  /\ loading = FALSE
  /\ lastUpdate = Null
  /\ error = Null
  /\ refreshInterval = Null
  /\ mounted = FALSE
  /\ cycles = <<>>
  /\ clock = 0
  /\ call = Idle

Next ==
  \/ Mount
  \/ \E market \in Markets : SelectMarket(market)
  \/ IntervalTick
  \/ Refresh
  \/ Resume
  \/ Tick

Spec == Init /\ [][Next]_vars

----------------------------------------------------------------------------
(* The pricing functions on their own: one invocation at a time, on inputs  *)
(* drawn from the sets below, with the clock free to move between two      *)
(* invocations of generateOptions.                                         *)

\* (stockSymbol, stockPrice in cents) given to generateOptions.
GenInputs ==
  { << <<"RELIANCE", ".NS">>, 285050 >>,
    << <<"AAPL">>, 10000 >>,
    << <<"MSFT">>, 100 >>,
    << <<"INFY", ".NS">>, 55 >>,
    << <<"TSLA">>, 40 >>,
    << <<"NVDA">>, 0 >>,
    << <<"META">>, 0 - 500 >> }

\* x given to normalCDF: the multiples of 1/4 up to MaxX quarters either way.
MaxX == 16
XGrid == { k * (ONE \div 4) : k \in (0 - MaxX)..MaxX }

\* (S, K) in cents, T, r, sigma and type given to calculateBlackScholes and
\* calculateGreeks.
SKGrid ==
  { <<10000, 8500>>, <<10000, 10000>>, <<10000, 11500>>, <<285050, 285000>>,
    <<55, 100>>, <<40, 0>>, <<0, 0>>, <<0 - 500, 0 - 400>> }
TGrid == { Div(days, 365) : days \in {0 - 29, 0, 29, 116} }
RGrid == { 650000, 500000 }
SigmaGrid == { 3000000, 2000000 }
Types == { "call", "put" }

\* An input of generateOptions is chosen.
ChooseGenerate(stockSymbol, stockPrice) ==
  /\ call = Idle
  /\ call' = [fn |-> "generateOptions", stockSymbol |-> stockSymbol,
              stockPrice |-> stockPrice, n |-> 0,
              at |-> 0, options |-> <<>>, prevAt |-> 0, prevOptions |-> <<>>]
  /\ UNCHANGED << component, clock >>

\* generateOptions is invoked on the chosen input, a first and a second time.
InvokeGenerate ==
  /\ call.fn = "generateOptions"
  /\ call.n < 2
  /\ call' = [call EXCEPT
                !.n = call.n + 1,
                !.prevAt = call.at,
                !.prevOptions = call.options,
                !.at = Now,
                !.options = generateOptions(call.stockSymbol, call.stockPrice, Now)]
  /\ UNCHANGED << component, clock >>

CallNormalCDF(x) ==
  /\ call = Idle
  /\ call' = [fn |-> "normalCDF", x |-> x, result |-> normalCDF(x)]
  /\ UNCHANGED << component, clock >>

CallBlackScholes(S, K, T, r, sigma, type) ==
  /\ call = Idle
  /\ call' = [fn |-> "calculateBlackScholes", S |-> S, K |-> K, T |-> T, r |-> r,
              sigma |-> sigma, type |-> type,
              result |-> calculateBlackScholes(S, K, T, r, sigma, type)]
  /\ UNCHANGED << component, clock >>

CallGreeks(S, K, T, r, sigma, type) ==
  /\ call = Idle
  /\ call' = [fn |-> "calculateGreeks", S |-> S, K |-> K, T |-> T, r |-> r,
              sigma |-> sigma, type |-> type,
              result |-> calculateGreeks(S, K, T, r, sigma, type)]
  /\ UNCHANGED << component, clock >>

\* The invocation under examination is done with.
Return ==
  /\ call # Idle
  /\ call' = Idle
  /\ UNCHANGED << component, clock >>

NextGen ==
  \/ \E input \in GenInputs : ChooseGenerate(input[1], input[2])
  \/ InvokeGenerate
  \/ \E x \in XGrid : CallNormalCDF(x)
  \/ \E sk \in SKGrid, T \in TGrid, r \in RGrid, sigma \in SigmaGrid, type \in Types :
       \/ CallBlackScholes(sk[1], sk[2], T, r, sigma, type)
       \/ CallGreeks(sk[1], sk[2], T, r, sigma, type)
  \/ Return
  \/ Tick

SpecGen == Init /\ [][NextGen]_vars

----------------------------------------------------------------------------
(* Properties *)

\* generateOptions has returned in the invocation under examination.
Generated == call.fn = "generateOptions" /\ call.n >= 1

\* The strike column of the claims: spot times 0.85, ..., 1.15, in percent.
Multipliers == <<85, 90, 95, 100, 105, 110, 115>>
Labels == <<"30 Dec 25", "30 Jan 26", "27 Mar 26">>

\* k is a whole number nearest to stockPrice * pct / 100 currency units.
Nearest(k, stockPrice, pct) == 2 * Abs(k * 10000 - stockPrice * pct) <= 10000

\* C1: generateOptions returns its rows in the nesting order expiry x strike x
\* type: the i-th row has the expiry number (i-1) div 14 in the order 30 Dec 25,
\* 30 Jan 26, 27 Mar 26, the strike of multiplier number ((i-1) mod 14) div 2 in
\* the order 0.85, ..., 1.15, and is the call if i is odd and the put if i is
\* even; nothing is reordered.
C1_RowOrder ==
  Generated =>
    /\ Len(call.options) = Len(Labels) * Len(Multipliers) * 2
    /\ \A i \in 1..Len(call.options) :
         /\ call.options[i].expiry = Labels[(i - 1) \div 14 + 1]
         /\ Nearest(call.options[i].strike, call.stockPrice,
                    Multipliers[((i - 1) % 14) \div 2 + 1])
         /\ call.options[i].type = (IF i % 2 = 1 THEN "call" ELSE "put")

\* generateOptions has returned the chain of 2850.50, whose strikes all differ.
C1_Witness ==
  /\ Generated
  /\ call.stockPrice = 285050
  /\ call.options[1].strike = 2423 /\ call.options[1].type = "call"
  /\ call.options[2].strike = 2423 /\ call.options[2].type = "put"
  /\ call.options[17].strike = 2565 /\ call.options[17].expiry = "30 Jan 26"

\* The (strike, expiry label, option type) triple of a row.
Triple(row) == <<row.strike, row.expiry, row.type>>

\* C2: for a positive spot price generateOptions produces 7 * 3 * 2 = 42
\* contracts minus those of the non-positive strikes, which are dropped, and no
\* two contracts share their (strike, expiry label, option type).
C2_ChainComplete ==
  (Generated /\ call.stockPrice > 0) =>
    /\ Len(call.options) =
         42 - 6 * Cardinality({k \in 1..7 : strikes(call.stockPrice)[k] <= 0})
    /\ \A i, j \in 1..Len(call.options) :
         i # j => Triple(call.options[i]) # Triple(call.options[j])

\* C3: every contract generateOptions returns for a positive spot price has a
\* strike > 0: a strike that rounds to zero or below is dropped.
C3_StrikesPositive ==
  (Generated /\ call.stockPrice > 0) =>
    \A i \in 1..Len(call.options) : call.options[i].strike > 0

\* The rows a refresh cycle has generated: those shown and those being collected.
RowsGenerated ==
  { optionsData[i] : i \in 1..Len(optionsData) }
    \cup UNION { { cycles[k].allOptions[i] : i \in 1..Len(cycles[k].allOptions) } :
                 k \in 1..Len(cycles) }

\* C4: fetchAllOptions invokes generateOptions only with a positive spot price:
\* no row is generated for a symbol whose price is zero, negative or absent.
C4_ValidatedSpot ==
  \A row \in RowsGenerated : IsNum(row.spotPrice) /\ row.spotPrice > 0

\* The rows of generateOptions' last result whose expiry is at or before the
\* instant of the invocation.
Expired == { i \in 1..Len(call.options) : DayOf(call.options[i].expiryDate) <= call.at }

\* C5: for T <= 0 calculateBlackScholes returns max(S-K, 0) for a call and
\* max(K-S, 0) for a put, calculateGreeks returns all zeros, and every row
\* generateOptions emits for an expiry at or before the valuation instant has
\* theoreticalPrice = intrinsicValue, timeValue = 0 and all Greeks 0.
C5_BoundaryCollapse ==
  /\ (call.fn = "calculateBlackScholes" /\ call.T <= 0) =>
       call.result =
         (IF call.type = "call"
            THEN (IF call.S - call.K > 0 THEN call.S - call.K ELSE 0)
            ELSE (IF call.K - call.S > 0 THEN call.K - call.S ELSE 0))
  /\ (call.fn = "calculateGreeks" /\ call.T <= 0) =>
       /\ call.result.delta = 0 /\ call.result.gamma = 0
       /\ call.result.theta = 0 /\ call.result.vega = 0
  /\ Generated =>
       \A i \in Expired :
         /\ call.options[i].theoreticalPrice = call.options[i].intrinsicValue
         /\ call.options[i].timeValue = 0
         /\ call.options[i].delta = 0 /\ call.options[i].gamma = 0
         /\ call.options[i].theta = 0 /\ call.options[i].vega = 0

\* generateOptions has run at the instant of the last expiry (T = 0) and has
\* emitted for it a row in the money, and one for an expiry still ahead has a
\* time value.
C5_Witness ==
  /\ Generated
  /\ \E i \in Expired :
       /\ DayOf(call.options[i].expiryDate) = call.at
       /\ call.options[i].intrinsicValue > 0
       /\ call.options[i].theoreticalPrice = call.options[i].intrinsicValue

\* C6: any two invocations of generateOptions with the same (symbol, spot
\* price) return identical sequences, whenever each happens.
C6_SameInputsSameRows ==
  (call.fn = "generateOptions" /\ call.n = 2) => call.options = call.prevOptions

\* The fields of a row that do not derive from the time to expiry.
Timeless(row) ==
  << row.code, row.underlying, row.strike, row.type, row.expiry, row.expiryDate,
     row.spotPrice, row.intrinsicValue, row.itm >>

\* C6 as amended: two invocations of generateOptions with the same (symbol,
\* spot price) return identical sequences when the clock reads the same at
\* both, and at any two instants sequences of the same length whose rows agree
\* in every field but theoreticalPrice, timeValue, delta, gamma, theta, vega.
C6_SameInputsSameInstant ==
  (call.fn = "generateOptions" /\ call.n = 2) =>
    /\ call.at = call.prevAt => call.options = call.prevOptions
    /\ Len(call.options) = Len(call.prevOptions)
    /\ \A i \in 1..Len(call.options) :
         Timeless(call.options[i]) = Timeless(call.prevOptions[i])

\* generateOptions has run twice on one input with the clock moved in between,
\* and the two results differ.
C6_Witness ==
  /\ call.fn = "generateOptions" /\ call.n = 2
  /\ call.at # call.prevAt
  /\ call.options # call.prevOptions
  /\ Len(call.options) = 42

\* C7: for every contract generateOptions returns, itm is true exactly when
\* spotPrice > strike for a call and exactly when spotPrice < strike for a put,
\* intrinsicValue >= 0, and itm is true exactly when intrinsicValue > 0.
C7_Moneyness ==
  Generated =>
    \A i \in 1..Len(call.options) :
      LET row == call.options[i] IN
        /\ row.type = "call" => (row.itm <=> row.spotPrice > row.strike * 100)
        /\ row.type = "put" => (row.itm <=> row.spotPrice < row.strike * 100)
        /\ row.intrinsicValue >= 0
        /\ row.itm <=> row.intrinsicValue > 0

\* generateOptions has returned a call and a put at the money (spot = strike),
\* neither flagged, beside contracts in the money.
C7_Witness ==
  /\ Generated
  /\ \E i, j, k \in 1..Len(call.options) :
       /\ call.options[i].type = "call" /\ call.options[j].type = "put"
       /\ call.options[i].strike * 100 = call.stockPrice /\ ~call.options[i].itm
       /\ call.options[j].strike * 100 = call.stockPrice /\ ~call.options[j].itm
       /\ call.options[k].itm /\ call.options[k].intrinsicValue > 0

\* C8: normalCDF(x) + normalCDF(-x) = 1 for every x, x = 0 included, and
\* normalCDF(0) is 0.5 within 1e-9 (here: within the one unit of 1e-7 that
\* truncation can take away).
C8_Antisymmetry ==
  call.fn = "normalCDF" =>
    /\ call.result + normalCDF(FNeg(call.x)) = ONE
    /\ call.x = 0 => Abs(call.result - ONE \div 2) <= 1

\* The stocks of the selected market.
SelectedStocks ==
  { marketStocks[selectedMarket][i] : i \in 1..Len(marketStocks[selectedMarket]) }

\* C9: whenever no fetchAllOptions cycle is in flight, every row of
\* optionsData has an underlying of the selected market.
C9_RowsOfSelectedMarket ==
  cycles = <<>> =>
    \A i \in 1..Len(optionsData) : optionsData[i].underlying \in SelectedStocks

\* C10: loading is true in every state in which a fetchAllOptions cycle is in
\* flight.
C10_LoadingWhileInFlight == cycles # <<>> => loading

====
